---- MODULE Spec2Model ----
(***************************************************************************)
(* Model of athena-to-postgres.js: the migration script that resolves the *)
(* column metadata of a fixed list of Glue tables, queries each table in  *)
(* Athena, pages through the result and loads every page into Postgres    *)
(* with one multi-row INSERT.                                              *)
(*                                                                         *)
(* One action is one turn of the Node.js event loop: the code that runs   *)
(* from the resolution of one awaited promise up to the next await.       *)
(*                                                                         *)
(* LifecycleSpec models the two Lambda handlers, start-services.js and    *)
(* the stop handler, each invoked once against one control plane.         *)
(***************************************************************************)
EXTENDS Integers, Sequences, FiniteSets, TLC

\* ---- bounds of the model --------------------------------------------------
MaxPages == 2      \* pages the catalog service returns for one execution
MaxRows == 2       \* data rows on one result page
MaxCols == 2       \* columns of one table
MaxGateways == 3   \* NAT gateways the account holds at any time

\* ---- program constants ----------------------------------------------------
glueTableNameList == <<"glue_table1", "glue_table2", "glue_table3">>
PoolMax == 20

Tables == 1..Len(glueTableNameList)

\* tableName.substring(6)
pgName(t) == <<"able1", "able2", "able3">>[t]

\* the value of a variable that holds `undefined`
NoToken == 0
NoColumns == <<>>

ColumnNames == <<"id", "name", "email">>

VARIABLES
    pc,                \* where the top-level flow is suspended
    exitCode,          \* exit code of the process, -1 while it runs
    metaPending,       \* GetTableMetadata requests in flight
    metaOrder,         \* tables in the order their metadata lookups completed
    tablesWithColumns, \* per table: the resolved record, or unresolved
    cur,               \* position of the for loop in tablesWithColumns
    exec,              \* athName of startCommandResponse.QueryExecutionId, "" if none
    execState,         \* state of that execution inside the catalog service
    nextToken,         \* local nextToken of queryAthena
    rows,              \* rows argument of the running insertIntoPostgresAsBatch
    stmt,              \* query text and values built by insertIntoPostgresAsBatch
    checkedOut,        \* clients checked out of pgPool
    idle,              \* idle clients held by pgPool
    callAcquired,      \* clients acquired by the current insertIntoPostgresAsBatch call
    callReleased,      \* release() calls made by the current insertIntoPostgresAsBatch call
    submitLog,         \* tables whose StartQueryExecution was sent, in order
    fetchLog,          \* NextToken of every GetQueryResults sent for exec
    served,            \* result pages the service returned for exec
    handed,            \* rows arguments passed to insertIntoPostgresAsBatch for exec
    queryLog,          \* per loader call of exec: "ok" / "error" of client.query
    inserted,          \* rows stored in the Postgres table of exec
    tableState,        \* per table: PENDING, LOADED or FAILED
    \* -- the control plane the two Lambda handlers talk to
    dbStatus,          \* DBInstanceStatus of the RDS instance
    desiredCount,      \* desiredCount of the two Fargate services
    rulePriority,      \* priority of the site rule and of the maintenance rule
    natGateways,       \* the NAT gateways of the account, in the order listed
    defaultRoute,      \* NatGatewayId of the 0.0.0.0/0 route, 0 if none
    \* -- start-services.js
    startPc,           \* where the start handler is suspended
    dbInstanceStatus,  \* local of startDatabaseService
    natGatewayId,      \* local of createNatGateway
    gatewayState,      \* local of createNatGateway
    startLog,          \* what the start handler has done or observed, in order
    startResult,       \* "none", "200" or "error"
    \* -- the stop handler
    stopPc,            \* where the stop handler is suspended
    natGateway,        \* local of deleteNatGateway: the gateway found
    stopLog,           \* what the stop handler has done, in order
    stopResult,        \* "none", "200" or "error"
    returnedOps,       \* functions of either handler that have returned
    polledAvailable    \* functions that returned on an observed 'available'

\* the variables of the migration script
migrationVars == <<pc, exitCode, metaPending, metaOrder, tablesWithColumns, cur, exec,
                   execState, nextToken, rows, stmt, checkedOut, idle, callAcquired,
                   callReleased, submitLog, fetchLog, served, handed, queryLog,
                   inserted, tableState>>

infraVars == <<dbStatus, desiredCount, rulePriority, natGateways, defaultRoute>>
startVars == <<startPc, dbInstanceStatus, natGatewayId, gatewayState, startLog, startResult>>
stopVars == <<stopPc, natGateway, stopLog, stopResult>>

\* the variables of the two Lambda handlers
lifecycleVars == <<infraVars, startVars, stopVars, returnedOps, polledAvailable>>

vars == <<migrationVars, lifecycleVars>>

\* ---- the catalog service ---------------------------------------------------

\* response.TableMetadata.Columns.map(column => column.Name)
Columns(c) == SubSeq(ColumnNames, 1, c)

\* the header record the service puts first on the first page
HeaderRow(columns) ==
    [Data |-> [j \in 1..Len(columns) |-> [VarCharValue |-> columns[j]]]]

\* data record k of page p
DataRow(c, p, k) ==
    [Data |-> [j \in 1..c |->
        [VarCharValue |-> ToString(p) \o "." \o ToString(k) \o "." \o ToString(j)]]]

\* ResultSet.Rows of page p holding n records
ResultSetRows(columns, p, n) ==
    [k \in 1..n |-> IF p = 1 /\ k = 1 THEN HeaderRow(columns)
                    ELSE DataRow(Len(columns), p, k)]

\* states a later GetQueryExecution may report after state s
NextExecStates(s) ==
    CASE s = "QUEUED" -> {"QUEUED", "RUNNING", "SUCCEEDED", "FAILED", "CANCELLED"}
      [] s = "RUNNING" -> {"RUNNING", "SUCCEEDED", "FAILED", "CANCELLED"}
      [] OTHER -> {s}

\* ---- queryAthena: turning a page into rows ---------------------------------

\* row.Data.map(data => data.VarCharValue)
RowValues(row) == [j \in 1..Len(row.Data) |-> row.Data[j].VarCharValue]

\* Rows.slice(1)
Slice1(s) == IF s = <<>> THEN <<>> ELSE Tail(s)

MapRowValues(rs) == [k \in 1..Len(rs) |-> RowValues(rs[k])]

\* variant: the first record is dropped from every page
PageRows_StripEveryPage(token, rs) == MapRowValues(Slice1(rs))

\* the if / else on !nextToken
PageRows(token, rs) ==
    IF token = NoToken THEN MapRowValues(Slice1(rs))
    ELSE <<>> \o MapRowValues(rs)

\* ---- insertIntoPostgresAsBatch: building the statement ---------------------

\* rows[0]?.length
columnsCount(rs) == IF rs = <<>> THEN 0 ELSE Len(rs[1])

\* variant: the row offset is not scaled by the row width
PlaceholderIndex_NoRowStride(rowIndex, colIndex, cc) == rowIndex + colIndex + 1

\* `$${rowIndex * columnsCount + colIndex + 1}`
PlaceholderIndex(rowIndex, colIndex, cc) == rowIndex * cc + colIndex + 1

valuePlaceholders(rs) ==
    [i \in 1..Len(rs) |->
        [j \in 1..Len(rs[i]) |-> PlaceholderIndex(i - 1, j - 1, columnsCount(rs))]]

RECURSIVE values(_)
\* values.push(...row) for every row in turn
values(rs) == IF rs = <<>> THEN <<>> ELSE rs[1] \o values(Tail(rs))

BuildStatement(tableName, columns, rs) ==
    [tableName |-> tableName, columnNames |-> columns,
     valuePlaceholders |-> valuePlaceholders(rs), values |-> values(rs)]

NoStatement == BuildStatement("", <<>>, <<>>)

\* ---- the Postgres server ---------------------------------------------------

\* the parameter numbers the statement text refers to
PlaceholdersUsed(s) ==
    UNION {{s.valuePlaceholders[i][j] : j \in DOMAIN s.valuePlaceholders[i]} :
           i \in DOMAIN s.valuePlaceholders}

\* the server accepts the statement: VALUES has at least one group, every
\* group has one expression per target column, and the parameters referred
\* to are exactly the parameters bound
StatementValid(s) ==
    /\ s.valuePlaceholders # <<>>
    /\ \A i \in DOMAIN s.valuePlaceholders :
           Len(s.valuePlaceholders[i]) = Len(s.columnNames)
    /\ PlaceholdersUsed(s) = 1..Len(s.values)

\* the rows an accepted statement stores
StoredRows(s) ==
    [i \in DOMAIN s.valuePlaceholders |->
        [j \in DOMAIN s.valuePlaceholders[i] |-> s.values[s.valuePlaceholders[i][j]]]]

\* ---- control flow of queryAthena and insertIntoPostgresAsBatch -------------

\* variant: FAILED is not told apart from SUCCEEDED
PollBranch_FailedFetches(state) ==
    CASE state \in {"FAILED", "SUCCEEDED"} -> "results"
      [] OTHER -> "wait"

\* variant: a running execution is paged
PollBranch_RunningFetches(state) ==
    CASE state = "FAILED" -> "break"
      [] state \in {"SUCCEEDED", "RUNNING"} -> "results"
      [] OTHER -> "wait"

\* variant: the loop gives up on a cancelled execution
PollBranch_CancelledBreaks(state) ==
    CASE state \in {"FAILED", "CANCELLED"} -> "break"
      [] state = "SUCCEEDED" -> "results"
      [] OTHER -> "wait"

\* the two ifs inside while (true)
PollBranch(state) ==
    CASE state = "FAILED" -> "break"
      [] state = "SUCCEEDED" -> "results"
      [] OTHER -> "wait"

\* variant: the loop body runs once
LoopAgain_Never(token) == FALSE

\* } while (nextToken)
LoopAgain(token) == token # NoToken

\* the page a GetQueryResults request with this NextToken asks for
PageOf(token) == IF token = NoToken THEN 1 ELSE token

\* variant: the catch block rethrows
OnInsertError_Rethrow == "thrown"

\* catch (error) { console.error(...) }
OnInsertError == "logged"

\* variant: release() only at the end of the try block
ReleasesOnExit_SuccessOnly(ok) == IF ok THEN 1 ELSE 0

\* finally { client.release() }: release() calls on the way out of the try
ReleasesOnExit(ok) == 1

\* variant: results in the order the promises settled
PromiseAll_CompletionOrder(promises, order) == [i \in DOMAIN promises |-> promises[order[i]]]

\* await Promise.all(tablesWithColumns): results in the order of the array
PromiseAll(promises, order) == [i \in DOMAIN promises |-> promises[i]]

\* variant: the loop starts as soon as one lookup has settled
JoinReady_FirstSettled(pending) == pending # Tables

\* Promise.all resolves when no promise of the array is pending
JoinReady(pending) == pending = {}

Unresolved == [athName |-> "", pgName |-> "", columns |-> NoColumns]

metaVars == <<metaPending, metaOrder, tablesWithColumns>>
poolVars == <<checkedOut, idle, callAcquired, callReleased>>
histVars == <<fetchLog, served, handed, queryLog, inserted>>

\* ---- the control plane and the Lambda handlers: state ----------------------

Services == {"webUI", "restApi"}

\* process.env.NEW_NAT_GATEWAY_NAME
NAT_GATEWAY_NAME == "nat-main"

NameTag(v) == [Key |-> "Name", Value |-> v]
Tagged(ts) == [present |-> TRUE, list |-> ts]
\* a gateway whose Tags member is undefined
Untagged == [present |-> FALSE, list |-> <<>>]

NatGateway(id, state, tags) == [NatGatewayId |-> id, State |-> state, Tags |-> tags]

\* the value of natGateway when find() returned undefined
NoGateway == NatGateway(0, "", Untagged)

\* SetRulePriorities of the start handler and of the stop handler
LivePriorities == [site |-> 1, maintenance |-> 10]
MaintenancePriorities == [site |-> 10, maintenance |-> 1]

LifecycleIdle ==
    /\ dbStatus = "stopped"
    /\ desiredCount = [s \in Services |-> 0]
    /\ rulePriority = MaintenancePriorities
    /\ natGateways = <<>>
    /\ defaultRoute = 0
    /\ startPc = "idle"
    /\ dbInstanceStatus = ""
    /\ natGatewayId = 0
    /\ gatewayState = ""
    /\ startLog = <<>>
    /\ startResult = "none"
    /\ stopPc = "idle"
    /\ natGateway = NoGateway
    /\ stopLog = <<>>
    /\ stopResult = "none"
    /\ returnedOps = {}
    /\ polledAvailable = {}

MigrationInit ==
    /\ pc = "main"
    /\ exitCode = -1
    /\ metaPending = {}
    /\ metaOrder = <<>>
    /\ tablesWithColumns = [t \in Tables |-> Unresolved]
    /\ cur = 0
    /\ exec = ""
    /\ execState = "NONE"
    /\ nextToken = NoToken
    /\ rows = <<>>
    /\ stmt = NoStatement
    /\ checkedOut = 0
    /\ idle = 0
    /\ callAcquired = 0
    /\ callReleased = 0
    /\ submitLog = <<>>
    /\ fetchLog = <<>>
    /\ served = <<>>
    /\ handed = <<>>
    /\ queryLog = <<>>
    /\ inserted = <<>>
    /\ tableState = [n \in {glueTableNameList[t] : t \in Tables} |-> "PENDING"]

\* no Lambda handler is invoked while the migration script runs
Init ==
    /\ MigrationInit
    /\ LifecycleIdle

\* an error reaches the top-level await: the process dies with code 1
Throw ==
    /\ pc' = "exited"
    /\ exitCode' = 1

\* queryAthena(table...) runs up to client.send(startCommand)
CallQueryAthena(i, table) ==
    /\ cur' = i
    /\ pc' = "submit"
    /\ submitLog' = Append(submitLog, table.athName)

\* queryAthena returns: next iteration of the for loop, or the end of the script
ReturnFromQueryAthena ==
    IF cur < Len(tablesWithColumns)
    THEN CallQueryAthena(cur + 1, tablesWithColumns[cur + 1])
    ELSE /\ pc' = "completed"
         /\ UNCHANGED <<cur, submitLog>>

\* await insertTablesInOrder(): the map callback sends every lookup
insertTablesInOrder ==
    /\ UNCHANGED lifecycleVars
    /\ pc = "main"
    /\ pc' = "awaitAll"
    /\ metaPending' = Tables
    /\ UNCHANGED <<exitCode, metaOrder, tablesWithColumns, cur, exec, execState,
                   nextToken, rows, stmt, poolVars, submitLog, histVars, tableState>>

\* one GetTableMetadata response arrives
MetadataResponse(t, c) ==
    /\ UNCHANGED lifecycleVars
    /\ pc = "awaitAll"
    /\ t \in metaPending
    /\ metaPending' = metaPending \ {t}
    /\ metaOrder' = Append(metaOrder, t)
    /\ tablesWithColumns' = [tablesWithColumns EXCEPT ![t] =
           [athName |-> glueTableNameList[t], pgName |-> pgName(t),
            columns |-> Columns(c)]]
    /\ UNCHANGED <<pc, exitCode, cur, exec, execState, nextToken, rows, stmt,
                   poolVars, submitLog, histVars, tableState>>

\* one GetTableMetadata request fails: Promise.all rejects
MetadataRejected(t) ==
    /\ UNCHANGED lifecycleVars
    /\ pc = "awaitAll"
    /\ t \in metaPending
    /\ metaPending' = metaPending \ {t}
    /\ Throw
    /\ UNCHANGED <<metaOrder, tablesWithColumns, cur, exec, execState, nextToken,
                   rows, stmt, poolVars, submitLog, histVars, tableState>>

\* Promise.all resolves; the for loop starts
JoinMetadata ==
    /\ UNCHANGED lifecycleVars
    /\ pc = "awaitAll"
    /\ JoinReady(metaPending)
    /\ tablesWithColumns' = PromiseAll(tablesWithColumns, metaOrder)
    /\ CallQueryAthena(1, tablesWithColumns'[1])
    /\ UNCHANGED <<exitCode, metaPending, metaOrder, exec, execState, nextToken,
                   rows, stmt, poolVars, histVars, tableState>>

\* StartQueryExecution answers; the first GetQueryExecution is sent
SubmitResponse ==
    /\ UNCHANGED lifecycleVars
    /\ pc = "submit"
    /\ pc' = "poll"
    /\ exec' = tablesWithColumns[cur].athName
    /\ execState' = "QUEUED"
    /\ nextToken' = NoToken
    /\ rows' = <<>>
    /\ stmt' = NoStatement
    /\ fetchLog' = <<>>
    /\ served' = <<>>
    /\ handed' = <<>>
    /\ queryLog' = <<>>
    /\ inserted' = <<>>
    /\ UNCHANGED <<exitCode, metaVars, cur, poolVars, submitLog, tableState>>

SubmitRejected ==
    /\ UNCHANGED lifecycleVars
    /\ pc = "submit"
    /\ Throw
    /\ UNCHANGED <<metaVars, cur, exec, execState, nextToken, rows, stmt,
                   poolVars, submitLog, histVars, tableState>>

\* GetQueryExecution answers with state s
PollResponse(s) ==
    /\ UNCHANGED lifecycleVars
    /\ pc = "poll"
    /\ s \in NextExecStates(execState)
    /\ execState' = s
    /\ CASE PollBranch(s) = "break" ->
              /\ tableState' = [tableState EXCEPT ![exec] = "FAILED"]
              /\ ReturnFromQueryAthena
              /\ UNCHANGED fetchLog
         [] PollBranch(s) = "results" ->
              /\ pc' = "fetch"
              /\ fetchLog' = Append(fetchLog, NoToken)
              /\ UNCHANGED <<cur, submitLog, tableState>>
         [] OTHER ->
              /\ pc' = "sleep"
              /\ UNCHANGED <<cur, submitLog, tableState, fetchLog>>
    /\ UNCHANGED <<exitCode, metaVars, exec, nextToken, rows, stmt, poolVars,
                   served, handed, queryLog, inserted>>

PollRejected ==
    /\ UNCHANGED lifecycleVars
    /\ pc = "poll"
    /\ Throw
    /\ UNCHANGED <<metaVars, cur, exec, execState, nextToken, rows, stmt,
                   poolVars, submitLog, histVars, tableState>>

\* the 5000 ms timer fires; the next GetQueryExecution is sent
Wake ==
    /\ UNCHANGED lifecycleVars
    /\ pc = "sleep"
    /\ pc' = "poll"
    /\ UNCHANGED <<exitCode, metaVars, cur, exec, execState, nextToken, rows,
                   stmt, poolVars, submitLog, histVars, tableState>>

\* GetQueryResults answers with n records and, if more, a NextToken;
\* insertIntoPostgresAsBatch runs up to pgPool.connect()
FetchResponse(n, more) ==
    /\ UNCHANGED lifecycleVars
    /\ pc = "fetch"
    /\ LET p == PageOf(fetchLog[Len(fetchLog)])
           table == tablesWithColumns[cur]
           page == [Rows |-> ResultSetRows(table.columns, p, n),
                    NextToken |-> IF more THEN p + 1 ELSE NoToken]
           rs == PageRows(nextToken, page.Rows)
       IN  /\ p <= MaxPages
           /\ more => p < MaxPages
           /\ n >= (IF p = 1 THEN 1 ELSE 0)
           /\ n <= (IF p = 1 THEN MaxRows + 1 ELSE MaxRows)
           /\ served' = Append(served, page)
           /\ nextToken' = page.NextToken
           /\ rows' = rs
           /\ handed' = Append(handed, rs)
           /\ stmt' = BuildStatement(table.pgName, table.columns, rs)
    /\ callAcquired' = 0
    /\ callReleased' = 0
    /\ pc' = "connect"
    /\ UNCHANGED <<exitCode, metaVars, cur, exec, execState, checkedOut, idle,
                   submitLog, fetchLog, queryLog, inserted, tableState>>

FetchRejected ==
    /\ UNCHANGED lifecycleVars
    /\ pc = "fetch"
    /\ Throw
    /\ UNCHANGED <<metaVars, cur, exec, execState, nextToken, rows, stmt,
                   poolVars, submitLog, histVars, tableState>>

\* pgPool.connect() resolves; client.query(query, values) is sent
ConnectResolved ==
    /\ UNCHANGED lifecycleVars
    /\ pc = "connect"
    /\ checkedOut < PoolMax
    /\ checkedOut' = checkedOut + 1
    /\ idle' = IF idle > 0 THEN idle - 1 ELSE 0
    /\ callAcquired' = callAcquired + 1
    /\ pc' = "query"
    /\ UNCHANGED <<exitCode, metaVars, cur, exec, execState, nextToken, rows,
                   stmt, callReleased, submitLog, histVars, tableState>>

\* pgPool.connect() rejects, outside the try
ConnectRejected ==
    /\ UNCHANGED lifecycleVars
    /\ pc = "connect"
    /\ Throw
    /\ UNCHANGED <<metaVars, cur, exec, execState, nextToken, rows, stmt,
                   poolVars, submitLog, histVars, tableState>>

\* client.query settles; catch, finally, and back in the do-while of queryAthena
QuerySettled(ok) ==
    /\ UNCHANGED lifecycleVars
    /\ pc = "query"
    /\ ok => StatementValid(stmt)
    /\ inserted' = IF ok THEN inserted \o StoredRows(stmt) ELSE inserted
    /\ queryLog' = Append(queryLog, IF ok THEN "ok" ELSE "error")
    /\ LET r == ReleasesOnExit(ok)
       IN  /\ callReleased' = callReleased + r
           /\ checkedOut' = checkedOut - r
           /\ idle' = idle + r
    /\ IF ~ok /\ OnInsertError = "thrown"
       THEN /\ Throw
            /\ UNCHANGED <<cur, submitLog, fetchLog, tableState>>
       ELSE /\ UNCHANGED exitCode
            /\ IF LoopAgain(nextToken)
               THEN /\ pc' = "fetch"
                    /\ fetchLog' = Append(fetchLog, nextToken)
                    /\ UNCHANGED <<cur, submitLog, tableState>>
               ELSE /\ tableState' = [tableState EXCEPT ![exec] = "LOADED"]
                    /\ ReturnFromQueryAthena
                    /\ UNCHANGED fetchLog
    /\ UNCHANGED <<metaVars, exec, execState, nextToken, rows, stmt, callAcquired,
                   served, handed>>

\* pgPool.on('error'): an idle client fails; process.exit(-1)
PoolIdleError ==
    /\ UNCHANGED lifecycleVars
    /\ pc \notin {"main", "exited"}
    /\ idle > 0
    /\ pc' = "exited"
    /\ exitCode' = 255
    /\ UNCHANGED <<metaVars, cur, exec, execState, nextToken, rows, stmt,
                   poolVars, submitLog, histVars, tableState>>

\* the script has run to its last line; the process ends
ProcessExit ==
    /\ UNCHANGED lifecycleVars
    /\ pc = "completed"
    /\ pc' = "exited"
    /\ exitCode' = 0
    /\ UNCHANGED <<metaVars, cur, exec, execState, nextToken, rows, stmt,
                   poolVars, submitLog, histVars, tableState>>

Next ==
    \/ insertTablesInOrder
    \/ \E t \in Tables, c \in 1..MaxCols : MetadataResponse(t, c)
    \/ \E t \in Tables : MetadataRejected(t)
    \/ JoinMetadata
    \/ SubmitResponse
    \/ SubmitRejected
    \/ \E s \in {"QUEUED", "RUNNING", "SUCCEEDED", "FAILED", "CANCELLED"} : PollResponse(s)
    \/ PollRejected
    \/ Wake
    \/ \E n \in 0..MaxRows + 1, more \in BOOLEAN : FetchResponse(n, more)
    \/ FetchRejected
    \/ ConnectResolved
    \/ ConnectRejected
    \/ \E ok \in BOOLEAN : QuerySettled(ok)
    \/ PoolIdleError
    \/ ProcessExit

Spec == Init /\ [][Next]_vars

\* ---- the control plane ------------------------------------------------------

\* the gateways an account may hold before a handler runs
InitialNatGateways ==
    { <<>>,
      <<NatGateway(1, "available", Tagged(<<NameTag(NAT_GATEWAY_NAME)>>))>>,
      <<NatGateway(1, "available", Untagged),
        NatGateway(2, "available", Tagged(<<NameTag(NAT_GATEWAY_NAME)>>))>>,
      <<NatGateway(1, "available", Tagged(<<NameTag("nat-other")>>))>>,
      <<NatGateway(1, "available", Tagged(<<[Key |-> "env", Value |-> NAT_GATEWAY_NAME]>>))>>,
      <<NatGateway(1, "pending", Tagged(<<NameTag(NAT_GATEWAY_NAME)>>))>> }

\* statuses a resource moves to by itself
DbSettlesTo(status) ==
    CASE status = "starting" -> {"available", "failed"}
      [] status = "stopping" -> {"stopped"}
      [] OTHER -> {}

NatSettlesTo(state) ==
    CASE state = "pending" -> {"available", "failed"}
      [] state = "deleting" -> {"deleted"}
      [] OTHER -> {}

\* DescribeNatGateways with Filter state = available
DescribeAvailable(gws) == SelectSeq(gws, LAMBDA g : g.State = "available")

\* DescribeNatGateways with NatGatewayIds: [id]
DescribeById(gws, id) == SelectSeq(gws, LAMBDA g : g.NatGatewayId = id)

\* ---- start-services.js -----------------------------------------------------

\* variant: the Fargate services are started before the database
StartHandlerSteps_FargateFirst ==
    <<"startFargateServices", "startDatabaseService", "albRulesHandler", "createNatGateway">>

\* the awaits of the start handler, in order
StartHandlerSteps ==
    <<"startDatabaseService", "startFargateServices", "albRulesHandler", "createNatGateway">>

\* variant: the loops give up on 'failed'
WaitMore_StopsOnFailed(status) == status \notin {"available", "failed"}

\* while (dbInstanceStatus !== 'available'), while (gatewayState !== 'available')
WaitMore(status) == status # "available"

\* the request a function of the start handler sends first
StartFirstRequest(f) ==
    CASE f = "startDatabaseService" -> "StartDBInstance"
      [] f = "startFargateServices" -> "UpdateService:restApi"
      [] f = "albRulesHandler" -> "SetRulePriorities"
      [] f = "createNatGateway" -> "CreateNatGateway"

StartRequests ==
    {"StartDBInstance", "DescribeDBInstances", "UpdateService:restApi", "UpdateService:webUI",
     "SetRulePriorities", "CreateNatGateway", "DescribeNatGateways", "ReplaceRoute"}

IndexOf(seq, x) == CHOOSE i \in 1..Len(seq) : seq[i] = x

\* function f of the start handler returns: the next await, or return 200
StartReturn(f) ==
    /\ returnedOps' = returnedOps \cup {<<"start", f>>}
    /\ LET i == IndexOf(StartHandlerSteps, f)
       IN  IF i < Len(StartHandlerSteps)
           THEN /\ startPc' = StartFirstRequest(StartHandlerSteps[i + 1])
                /\ UNCHANGED startResult
           ELSE /\ startPc' = "returned"
                /\ startResult' = "200"

\* the Lambda is invoked: startDatabaseService sends StartDBInstance
InvokeStart ==
    /\ startPc = "idle"
    /\ startPc' = StartFirstRequest(StartHandlerSteps[1])
    /\ UNCHANGED <<migrationVars, infraVars, dbInstanceStatus, natGatewayId, gatewayState,
                   startLog, startResult, stopVars, returnedOps, polledAvailable>>

\* the head of the while loop of startDatabaseService with a fresh status
DbLoop(status, log) ==
    IF WaitMore(status)
    THEN /\ startPc' = "dbSleep"
         /\ startLog' = log
         /\ UNCHANGED <<startResult, returnedOps, polledAvailable>>
    ELSE /\ startLog' = IF status = "available" THEN Append(log, "db:available") ELSE log
         /\ polledAvailable' = IF status = "available"
                               THEN polledAvailable \cup {<<"start", "startDatabaseService">>}
                               ELSE polledAvailable
         /\ StartReturn("startDatabaseService")

\* StartDBInstance answers
StartDbResponse ==
    /\ startPc = "StartDBInstance"
    /\ dbStatus = "stopped"
    /\ dbStatus' = "starting"
    /\ dbInstanceStatus' = dbStatus'
    /\ DbLoop(dbInstanceStatus', Append(startLog, "StartDBInstance"))
    /\ UNCHANGED <<migrationVars, desiredCount, rulePriority, natGateways, defaultRoute,
                   natGatewayId, gatewayState, stopVars>>

\* the 30000 ms timer of startDatabaseService fires: DescribeDBInstances is sent
DbWake ==
    /\ startPc = "dbSleep"
    /\ startPc' = "DescribeDBInstances"
    /\ UNCHANGED <<migrationVars, infraVars, dbInstanceStatus, natGatewayId, gatewayState,
                   startLog, startResult, stopVars, returnedOps, polledAvailable>>

\* DescribeDBInstances answers
DescribeDbResponse ==
    /\ startPc = "DescribeDBInstances"
    /\ dbInstanceStatus' = dbStatus
    /\ DbLoop(dbInstanceStatus', startLog)
    /\ UNCHANGED <<migrationVars, infraVars, natGatewayId, gatewayState, stopVars>>

\* UpdateService of the REST API service answers; the one of the web UI is sent
StartRestApiResponse ==
    /\ startPc = "UpdateService:restApi"
    /\ desiredCount' = [desiredCount EXCEPT !["restApi"] = 1]
    /\ startLog' = Append(startLog, "UpdateService:restApi")
    /\ startPc' = "UpdateService:webUI"
    /\ UNCHANGED <<migrationVars, dbStatus, rulePriority, natGateways, defaultRoute,
                   dbInstanceStatus, natGatewayId, gatewayState, startResult, stopVars,
                   returnedOps, polledAvailable>>

\* UpdateService of the web UI service answers; startFargateServices returns
StartWebUiResponse ==
    /\ startPc = "UpdateService:webUI"
    /\ desiredCount' = [desiredCount EXCEPT !["webUI"] = 1]
    /\ startLog' = Append(startLog, "UpdateService:webUI")
    /\ StartReturn("startFargateServices")
    /\ UNCHANGED <<migrationVars, dbStatus, rulePriority, natGateways, defaultRoute,
                   dbInstanceStatus, natGatewayId, gatewayState, stopVars, polledAvailable>>

\* SetRulePriorities answers; albRulesHandler returns
StartAlbResponse ==
    /\ startPc = "SetRulePriorities"
    /\ rulePriority' = LivePriorities
    /\ startLog' = Append(startLog, "SetRulePriorities")
    /\ StartReturn("albRulesHandler")
    /\ UNCHANGED <<migrationVars, dbStatus, desiredCount, natGateways, defaultRoute,
                   dbInstanceStatus, natGatewayId, gatewayState, stopVars, polledAvailable>>

\* the head of the while loop of createNatGateway with a fresh state
NatLoop(state, log) ==
    IF WaitMore(state)
    THEN /\ startPc' = "natSleep"
         /\ startLog' = log
         /\ UNCHANGED polledAvailable
    ELSE /\ startPc' = "ReplaceRoute"
         /\ startLog' = IF state = "available" THEN Append(log, "nat:available") ELSE log
         /\ polledAvailable' = IF state = "available"
                               THEN polledAvailable \cup {<<"start", "createNatGateway">>}
                               ELSE polledAvailable

\* CreateNatGateway answers
CreateNatResponse ==
    /\ startPc = "CreateNatGateway"
    /\ Len(natGateways) < MaxGateways
    /\ LET id == Len(natGateways) + 1
       IN  /\ natGateways' = Append(natGateways,
                  NatGateway(id, "pending", Tagged(<<NameTag(NAT_GATEWAY_NAME)>>)))
           /\ natGatewayId' = id
    /\ gatewayState' = "pending"
    /\ NatLoop(gatewayState', Append(startLog, "CreateNatGateway"))
    /\ UNCHANGED <<migrationVars, dbStatus, desiredCount, rulePriority, defaultRoute,
                   dbInstanceStatus, startResult, stopVars, returnedOps>>

\* the 30000 ms timer of createNatGateway fires: DescribeNatGateways is sent
NatWake ==
    /\ startPc = "natSleep"
    /\ startPc' = "DescribeNatGateways"
    /\ UNCHANGED <<migrationVars, infraVars, dbInstanceStatus, natGatewayId, gatewayState,
                   startLog, startResult, stopVars, returnedOps, polledAvailable>>

\* DescribeNatGateways answers
DescribeNatResponse ==
    /\ startPc = "DescribeNatGateways"
    /\ gatewayState' = DescribeById(natGateways, natGatewayId)[1].State
    /\ NatLoop(gatewayState', startLog)
    /\ UNCHANGED <<migrationVars, infraVars, dbInstanceStatus, natGatewayId, startResult,
                   stopVars, returnedOps>>

\* ReplaceRoute answers; createNatGateway returns
ReplaceRouteResponse ==
    /\ startPc = "ReplaceRoute"
    /\ defaultRoute' = natGatewayId
    /\ startLog' = Append(startLog, "ReplaceRoute")
    /\ StartReturn("createNatGateway")
    /\ UNCHANGED <<migrationVars, dbStatus, desiredCount, rulePriority, natGateways,
                   dbInstanceStatus, natGatewayId, gatewayState, stopVars, polledAvailable>>

\* a request of the start handler fails: catch, console.error, throw error
StartRequestRejected ==
    /\ startPc \in StartRequests
    /\ startPc' = "thrown"
    /\ startResult' = "error"
    /\ UNCHANGED <<migrationVars, infraVars, dbInstanceStatus, natGatewayId, gatewayState,
                   startLog, stopVars, returnedOps, polledAvailable>>

\* ---- the stop handler -------------------------------------------------------

\* the awaits of the stop handler, in order
StopHandlerSteps ==
    <<"albRulesHandler", "stopFargateService", "stopDatabaseService", "deleteNatGateway">>

\* the request a function of the stop handler sends first
StopFirstRequest(f) ==
    CASE f = "albRulesHandler" -> "SetRulePriorities"
      [] f = "stopFargateService" -> "UpdateService:webUI"
      [] f = "stopDatabaseService" -> "StopDBInstance"
      [] f = "deleteNatGateway" -> "DescribeNatGateways"

StopRequests ==
    {"SetRulePriorities", "UpdateService:webUI", "UpdateService:restApi", "StopDBInstance",
     "DescribeNatGateways", "DeleteNatGateway"}

\* variant: any Name tag matches
HasNameTag_AnyName(nat) ==
    /\ nat.Tags.present
    /\ \E k \in 1..Len(nat.Tags.list) : nat.Tags.list[k].Key = "Name"

\* nat.Tags?.find(tag => tag.Key === 'Name' && tag.Value === NAT_GATEWAY_NAME), !!nameTag
HasNameTag(nat) ==
    /\ nat.Tags.present
    /\ \E k \in 1..Len(nat.Tags.list) :
           nat.Tags.list[k].Key = "Name" /\ nat.Tags.list[k].Value = NAT_GATEWAY_NAME

\* describeResult.NatGateways.find(...)
FindNatGateway(gws) ==
    LET hits == SelectSeq(gws, HasNameTag)
    IN  IF hits = <<>> THEN NoGateway ELSE hits[1]

\* function f of the stop handler returns: the next await, or return 200
StopReturn(f) ==
    /\ returnedOps' = returnedOps \cup {<<"stop", f>>}
    /\ LET i == IndexOf(StopHandlerSteps, f)
       IN  IF i < Len(StopHandlerSteps)
           THEN /\ stopPc' = StopFirstRequest(StopHandlerSteps[i + 1])
                /\ UNCHANGED stopResult
           ELSE /\ stopPc' = "returned"
                /\ stopResult' = "200"

\* the Lambda is invoked: albRulesHandler sends SetRulePriorities
InvokeStop ==
    /\ stopPc = "idle"
    /\ stopPc' = StopFirstRequest(StopHandlerSteps[1])
    /\ UNCHANGED <<migrationVars, infraVars, startVars, natGateway, stopLog, stopResult,
                   returnedOps, polledAvailable>>

\* SetRulePriorities answers; albRulesHandler returns
StopAlbResponse ==
    /\ stopPc = "SetRulePriorities"
    /\ rulePriority' = MaintenancePriorities
    /\ stopLog' = Append(stopLog, "SetRulePriorities")
    /\ StopReturn("albRulesHandler")
    /\ UNCHANGED <<migrationVars, dbStatus, desiredCount, natGateways, defaultRoute,
                   startVars, natGateway, polledAvailable>>

\* UpdateService of the web UI service answers; the one of the REST API is sent
StopWebUiResponse ==
    /\ stopPc = "UpdateService:webUI"
    /\ desiredCount' = [desiredCount EXCEPT !["webUI"] = 0]
    /\ stopLog' = Append(stopLog, "UpdateService:webUI")
    /\ stopPc' = "UpdateService:restApi"
    /\ UNCHANGED <<migrationVars, dbStatus, rulePriority, natGateways, defaultRoute,
                   startVars, natGateway, stopResult, returnedOps, polledAvailable>>

\* UpdateService of the REST API service answers; stopFargateService returns
StopRestApiResponse ==
    /\ stopPc = "UpdateService:restApi"
    /\ desiredCount' = [desiredCount EXCEPT !["restApi"] = 0]
    /\ stopLog' = Append(stopLog, "UpdateService:restApi")
    /\ StopReturn("stopFargateService")
    /\ UNCHANGED <<migrationVars, dbStatus, rulePriority, natGateways, defaultRoute,
                   startVars, natGateway, polledAvailable>>

\* StopDBInstance answers; stopDatabaseService returns
StopDbResponse ==
    /\ stopPc = "StopDBInstance"
    /\ dbStatus = "available"
    /\ dbStatus' = "stopping"
    /\ stopLog' = Append(stopLog, "StopDBInstance")
    /\ StopReturn("stopDatabaseService")
    /\ UNCHANGED <<migrationVars, desiredCount, rulePriority, natGateways, defaultRoute,
                   startVars, natGateway, polledAvailable>>

\* DescribeNatGateways answers: return if nothing is found, else DeleteNatGateway is sent
StopDescribeNatResponse ==
    /\ stopPc = "DescribeNatGateways"
    /\ natGateway' = FindNatGateway(DescribeAvailable(natGateways))
    /\ IF natGateway' = NoGateway
       THEN StopReturn("deleteNatGateway")
       ELSE /\ stopPc' = "DeleteNatGateway"
            /\ UNCHANGED <<stopResult, returnedOps>>
    /\ UNCHANGED <<migrationVars, infraVars, startVars, stopLog, polledAvailable>>

\* DeleteNatGateway answers; deleteNatGateway returns
DeleteNatResponse ==
    /\ stopPc = "DeleteNatGateway"
    /\ natGateways' = [k \in 1..Len(natGateways) |->
           IF natGateways[k].NatGatewayId = natGateway.NatGatewayId
           THEN [natGateways[k] EXCEPT !.State = "deleting"]
           ELSE natGateways[k]]
    /\ stopLog' = Append(stopLog, "DeleteNatGateway")
    /\ StopReturn("deleteNatGateway")
    /\ UNCHANGED <<migrationVars, dbStatus, desiredCount, rulePriority, defaultRoute,
                   startVars, natGateway, polledAvailable>>

\* a request of the stop handler fails: catch, console.error, throw error
StopRequestRejected ==
    /\ stopPc \in StopRequests
    /\ stopPc' = "thrown"
    /\ stopResult' = "error"
    /\ UNCHANGED <<migrationVars, infraVars, startVars, natGateway, stopLog,
                   returnedOps, polledAvailable>>

\* ---- the control plane moves on its own ------------------------------------

DbSettles(status) ==
    /\ status \in DbSettlesTo(dbStatus)
    /\ dbStatus' = status
    /\ UNCHANGED <<migrationVars, desiredCount, rulePriority, natGateways, defaultRoute,
                   startVars, stopVars, returnedOps, polledAvailable>>

NatSettles(k, state) ==
    /\ k \in 1..Len(natGateways)
    /\ state \in NatSettlesTo(natGateways[k].State)
    /\ natGateways' = [natGateways EXCEPT ![k].State = state]
    /\ UNCHANGED <<migrationVars, dbStatus, desiredCount, rulePriority, defaultRoute,
                   startVars, stopVars, returnedOps, polledAvailable>>

\* the account before the handlers run
LifecycleInit ==
    /\ MigrationInit
    /\ dbStatus \in {"stopped", "available"}
    /\ desiredCount \in [Services -> {0, 1}]
    /\ rulePriority \in {LivePriorities, MaintenancePriorities}
    /\ natGateways \in InitialNatGateways
    /\ defaultRoute = 0
    /\ startPc = "idle"
    /\ dbInstanceStatus = ""
    /\ natGatewayId = 0
    /\ gatewayState = ""
    /\ startLog = <<>>
    /\ startResult = "none"
    /\ stopPc = "idle"
    /\ natGateway = NoGateway
    /\ stopLog = <<>>
    /\ stopResult = "none"
    /\ returnedOps = {}
    /\ polledAvailable = {}

LifecycleNext ==
    \/ InvokeStart
    \/ StartDbResponse
    \/ DbWake
    \/ DescribeDbResponse
    \/ StartRestApiResponse
    \/ StartWebUiResponse
    \/ StartAlbResponse
    \/ CreateNatResponse
    \/ NatWake
    \/ DescribeNatResponse
    \/ ReplaceRouteResponse
    \/ StartRequestRejected
    \/ InvokeStop
    \/ StopAlbResponse
    \/ StopWebUiResponse
    \/ StopRestApiResponse
    \/ StopDbResponse
    \/ StopDescribeNatResponse
    \/ DeleteNatResponse
    \/ StopRequestRejected
    \/ \E status \in {"available", "failed", "stopped"} : DbSettles(status)
    \/ \E k \in 1..MaxGateways, state \in {"available", "failed", "deleted"} :
           NatSettles(k, state)

LifecycleSpec == LifecycleInit /\ [][LifecycleNext]_vars

\* ---- properties ------------------------------------------------------------

RECURSIVE Concat(_)
Concat(ss) == IF ss = <<>> THEN <<>> ELSE ss[1] \o Concat(Tail(ss))

Last(s) == s[Len(s)]

\* every record the service returned for exec, page after page
AllServedRows == Concat([k \in 1..Len(served) |-> served[k].Rows])

\* the text values of a sequence of records
TextOf(rs) == [k \in 1..Len(rs) |-> [j \in 1..Len(rs[k].Data) |-> rs[k].Data[j].VarCharValue]]

AllBatchesOk == Len(queryLog) = Len(handed) /\ \A k \in 1..Len(queryLog) : queryLog[k] = "ok"

\* C1: the rows handed to insertIntoPostgresAsBatch for an execution are all
\* records of all pages served, in order, without the first record of the page
\* fetched without a token; pages fetched with a token are handed on whole;
\* when every batch succeeded the rows stored are those rows.
C1_HeaderDroppedOnce ==
    served # <<>> =>
        /\ Concat(handed) = TextOf(SubSeq(AllServedRows, 2, Len(AllServedRows)))
        /\ \A k \in 2..Len(served) : handed[k] = TextOf(served[k].Rows)
        /\ AllBatchesOk => inserted = Concat(handed)

\* the two-page scenario: header and two rows, then one row, all loaded
C1_Witness ==
    /\ exec # "" /\ tableState[exec] = "LOADED"
    /\ Len(served) = 2
    /\ Len(served[1].Rows) = 3
    /\ Len(served[2].Rows) = 1
    /\ AllBatchesOk
    /\ Len(inserted) = 3

\* C2: a page that yields no rows constructs no statement, acquires no client
\* and executes nothing.
C2_EmptyPageIsNoOp ==
    (handed # <<>> /\ Last(handed) = <<>> /\ Len(queryLog) < Len(handed)) =>
        /\ pc \notin {"connect", "query"}
        /\ callAcquired = 0

\* C3: a call of insertIntoPostgresAsBatch that acquired a client releases it
\* exactly once before it returns: never more releases than acquisitions, and
\* outside the pending client.query nothing is checked out.
C3_ReleasedExactlyOnce ==
    /\ callReleased <= callAcquired
    /\ pc = "query" => callAcquired = 1 /\ callReleased = 0 /\ checkedOut = 1
    /\ pc # "query" => callReleased = callAcquired /\ checkedOut = 0

\* a call whose statement failed has returned
C3_Witness ==
    /\ queryLog # <<>> /\ Last(queryLog) = "error"
    /\ Len(queryLog) = Len(handed)
    /\ callAcquired = 1
    /\ callReleased = 1
    /\ checkedOut = 0

UniformWidth(rs) == \A i \in 1..Len(rs) : Len(rs[i]) = Len(rs[1])

\* number of placeholders in the statement text
PlaceholderCount(s) == Len(Concat(s.valuePlaceholders))

\* C4: for a batch of R >= 1 rows of width C the placeholders use 1..R*C, each
\* once; row i column j (0-based) has placeholder i*C+j+1 and its value is at
\* position i*C+j of values; there are as many placeholders as values.
C4_PlaceholderBijection ==
    (rows # <<>> /\ UniformWidth(rows)) =>
        LET R == Len(rows)
            C == Len(rows[1])
        IN  /\ PlaceholdersUsed(stmt) = 1..R * C
            /\ PlaceholderCount(stmt) = R * C
            /\ Len(stmt.values) = PlaceholderCount(stmt)
            /\ \A i \in 0..R - 1, j \in 0..C - 1 :
                   /\ stmt.valuePlaceholders[i + 1][j + 1] = i * C + j + 1
                   /\ stmt.values[i * C + j + 1] = rows[i + 1][j + 1]

\* a 2 x 2 batch is being executed
C4_Witness ==
    /\ pc = "query"
    /\ Len(rows) = 2
    /\ Len(rows[1]) = 2

AllLoaded == \A t \in Tables : tableState[glueTableNameList[t]] = "LOADED"

\* C5: the process exits with code 0 if and only if every table reached LOADED.
C5_ExitCodeReportsFailure ==
    pc = "exited" => (exitCode = 0 <=> AllLoaded)

\* C6: an error raised by query submission, a status poll or a page fetch of
\* one table is caught: the pipeline of the following table is started.
C6_TableErrorsCaught ==
    [][((SubmitRejected \/ PollRejected \/ FetchRejected) /\ cur < Len(glueTableNameList))
          => (pc' = "submit" /\ cur' = cur + 1)]_vars

\* what the orchestrator does when a pipeline ends: the next table of the
\* list is submitted, or the script completes after the last one
ProceedsToNextTable ==
    IF cur < Len(glueTableNameList)
    THEN /\ pc' = "submit"
         /\ cur' = cur + 1
         /\ submitLog' = Append(submitLog, glueTableNameList[cur + 1])
    ELSE /\ pc' = "completed"
         /\ submitLog' = submitLog

NoDuplicates(s) == \A a, b \in 1..Len(s) : s[a] = s[b] => a = b

\* C7: when a poll reports FAILED the pipeline ends with no page fetched and
\* no batch handed to the loader, the orchestrator goes on to the next table,
\* and no table is submitted twice.
C7_FailedQuerySkipsTable ==
    [][/\ (pc = "poll" /\ execState' = "FAILED") =>
              /\ fetchLog' = <<>> /\ served' = <<>> /\ handed' = <<>> /\ inserted' = <<>>
              /\ ProceedsToNextTable
       /\ NoDuplicates(submitLog')
       /\ (exec' # "" /\ tableState'[exec'] = "FAILED") =>
              fetchLog' = <<>> /\ handed' = <<>> /\ queryLog' = <<>>]_vars

\* the first table failed after RUNNING and the second one has been submitted
C7_Witness ==
    /\ exec = glueTableNameList[1]
    /\ tableState[exec] = "FAILED"
    /\ execState = "FAILED"
    /\ pc = "submit"
    /\ submitLog = SubSeq(glueTableNameList, 1, 2)

ExecColumns ==
    tablesWithColumns[CHOOSE i \in Tables : tablesWithColumns[i].athName = exec].columns

\* C9: pages are fetched one after the other: the first without a token, each
\* later one with the token of the page before it and only after that page's
\* batch was executed; every page is fetched once and handed to the loader
\* once; paging ends at the first page without a token.
C9_PagesInOrder ==
    /\ Len(handed) = Len(served)
    /\ Len(queryLog) <= Len(handed)
    /\ Len(served) <= Len(fetchLog)
    /\ Len(fetchLog) <= Len(queryLog) + 1
    /\ fetchLog # <<>> => fetchLog[1] = NoToken
    /\ \A k \in 2..Len(fetchLog) :
           fetchLog[k] # NoToken /\ fetchLog[k] = served[k - 1].NextToken
    /\ NoDuplicates(fetchLog)
    /\ \A k \in 1..Len(served) :
           served[k].Rows = ResultSetRows(ExecColumns, k, Len(served[k].Rows))
    /\ (exec # "" /\ tableState[exec] = "LOADED") =>
           /\ Len(fetchLog) = Len(served)
           /\ Last(served).NextToken = NoToken

\* a table was loaded from as many pages as the service can return
C9_Witness ==
    /\ exec # "" /\ tableState[exec] = "LOADED"
    /\ Len(served) = MaxPages
    /\ Len(fetchLog) = MaxPages
    /\ Len(queryLog) = MaxPages

\* tables whose query was submitted and whose pipeline has not ended
ActiveTables == {k \in 1..Len(submitLog) : tableState[submitLog[k]] = "PENDING"}

\* C10: queries are submitted in the order of glueTableNameList whatever the
\* order the metadata lookups completed in, each only after the pipelines of
\* all tables before it have ended; at most one execution is in progress.
C10_TablesInListOrder ==
    /\ submitLog = SubSeq(glueTableNameList, 1, Len(submitLog))
    /\ \A k \in 1..Len(submitLog) - 1 : tableState[submitLog[k]] # "PENDING"
    /\ Cardinality(ActiveTables) <= 1

\* the lookups completed in reverse order and the last table is in progress
C10_Witness ==
    /\ metaOrder = <<3, 2, 1>>
    /\ Len(submitLog) = 3
    /\ pc = "poll"

Range(s) == {s[k] : k \in 1..Len(s)}

\* C11: all metadata lookups are in flight together and are joined: a query
\* is submitted only when every lookup has answered, and when a lookup fails
\* the run ends with an error with no query submitted and no row loaded.
C11_MetadataJoined ==
    /\ pc = "awaitAll" => metaPending \cup Range(metaOrder) = Tables
    /\ submitLog # <<>> =>
           /\ metaPending = {}
           /\ Range(metaOrder) = Tables
           /\ \A t \in Tables : tablesWithColumns[t].columns # NoColumns
    /\ Range(metaOrder) # Tables =>
           /\ submitLog = <<>> /\ exec = "" /\ fetchLog = <<>> /\ inserted = <<>>
           /\ pc = "exited" => exitCode = 1

\* two lookups answered, the third failed
C11_Witness ==
    /\ pc = "exited"
    /\ Len(metaOrder) = 2
    /\ metaPending = {}
    /\ exitCode = 1

PagingPcs == {"fetch", "connect", "query"}

\* C13: pages are fetched only after a poll of the execution returned
\* SUCCEEDED; on any state other than SUCCEEDED and FAILED the pipeline
\* sleeps and polls again, without a fetch or an insert.
C13_FetchOnlyAfterSucceeded ==
    [][/\ (pc = "poll" /\ execState' \notin {"SUCCEEDED", "FAILED"} /\ pc' # "exited") =>
              /\ pc' = "sleep"
              /\ UNCHANGED <<exec, submitLog, fetchLog, served, handed, queryLog, inserted>>
       /\ (pc = "sleep" /\ pc' # "exited") =>
              /\ pc' = "poll"
              /\ UNCHANGED <<exec, submitLog, fetchLog, served, handed, queryLog, inserted>>
       /\ (pc' \in PagingPcs \/ fetchLog' # <<>>) => execState' = "SUCCEEDED"
       /\ (pc \notin PagingPcs /\ pc' \in PagingPcs) =>
              (pc = "poll" /\ exec' = exec /\ execState' = "SUCCEEDED")]_vars

\* the second table was polled RUNNING and the pipeline sleeps
C13_Witness ==
    /\ exec = glueTableNameList[2]
    /\ execState = "RUNNING"
    /\ pc = "sleep"
    /\ fetchLog = <<>>

\* responses arrive and timers fire
FairSpec == Spec /\ WF_vars(Next)

\* the pipeline of the table exec was submitted for has ended, or the process has
PipelineEnded == pc = "exited" \/ (exec # "" /\ tableState[exec] # "PENDING")

\* C14: once the execution of a table reports SUCCEEDED or FAILED its
\* pipeline ends; while it reports anything else, however long, the pipeline
\* is polling or sleeping, the table is not finished and no later table has
\* been submitted.
C14_PollsUntilTerminal ==
    /\ (execState \in {"SUCCEEDED", "FAILED"}) ~> PipelineEnded
    /\ [](execState \in {"QUEUED", "RUNNING", "CANCELLED"} =>
             /\ pc \in {"poll", "sleep", "exited"}
             /\ tableState[exec] = "PENDING"
             /\ Last(submitLog) = exec)

\* the first execution was cancelled: the pipeline sleeps between two polls
C14_Witness ==
    /\ exec = glueTableNameList[1]
    /\ execState = "CANCELLED"
    /\ pc = "sleep"

\* C17: at most one client is checked out of pgPool at any time, far from the
\* pool's maximum, and none while a query is submitted or polled, the
\* pipeline sleeps or a page is fetched.
C17_OneConnectionAtMost ==
    /\ checkedOut <= 1
    /\ checkedOut < PoolMax
    /\ checkedOut + idle <= 1
    /\ pc \in {"main", "awaitAll", "submit", "poll", "sleep", "fetch", "connect"} => checkedOut = 0

\* a batch of the third table is executing on the client earlier batches used
C17_Witness ==
    /\ pc = "query"
    /\ checkedOut = 1
    /\ idle = 0
    /\ cur = 3
    /\ Len(handed) = 2

Start(f) == <<"start", f>>
Stop(f) == <<"stop", f>>

\* C12 as stated: whichever function of a handler has returned, it returned
\* on a terminal status it observed by polling.
C12_EveryOperationPolls == returnedOps \subseteq polledAvailable

\* C12, what the handlers do instead: only startDatabaseService and
\* createNatGateway poll, and they go on only after observing 'available'; no
\* other function of either handler ever observes a status by polling.
C12_OnlyStartupWaits ==
    /\ polledAvailable \subseteq {Start("startDatabaseService"), Start("createNatGateway")}
    /\ Start("startDatabaseService") \in returnedOps =>
           Start("startDatabaseService") \in polledAvailable
    /\ (Start("createNatGateway") \in returnedOps \/ startPc = "ReplaceRoute") =>
           Start("createNatGateway") \in polledAvailable
    /\ Stop("stopDatabaseService") \in returnedOps => "StopDBInstance" \in Range(stopLog)

\* both handlers ran to the end; the stop handler left the database stopping
\* and the gateway deleting when it returned
C12_Witness ==
    /\ startResult = "200"
    /\ stopResult = "200"
    /\ dbStatus = "stopping"
    /\ \E k \in DOMAIN natGateways : natGateways[k].State = "deleting"
    /\ polledAvailable = {Start("startDatabaseService"), Start("createNatGateway")}

StartOrder ==
    <<"StartDBInstance", "db:available", "UpdateService:restApi", "UpdateService:webUI",
      "SetRulePriorities", "CreateNatGateway", "nat:available", "ReplaceRoute">>

IsPrefix(a, b) == Len(a) <= Len(b) /\ a = SubSeq(b, 1, Len(a))

\* C15: the start handler takes its steps in one order, each after the one
\* before succeeded: desired count 1 only after 'available' was seen for the
\* database, the site rule first only after both desired counts, the route
\* only after 'available' was seen for the gateway, status 200 only after
\* all of them; after an error the handler has rethrown and takes no step.
C15_StartStepsInOrder ==
    [][/\ IsPrefix(startLog', StartOrder)
       /\ (\E sv \in Services : desiredCount'[sv] = 1 /\ desiredCount[sv] = 0) =>
              "db:available" \in Range(startLog)
       /\ (rulePriority' = LivePriorities /\ rulePriority # LivePriorities) =>
              {"UpdateService:restApi", "UpdateService:webUI"} \subseteq Range(startLog)
       /\ defaultRoute' # defaultRoute =>
              /\ "nat:available" \in Range(startLog)
              /\ defaultRoute' = natGatewayId
       /\ startResult' = "200" => startLog' = StartOrder
       /\ startPc' = "thrown" => startResult' = "error"
       /\ startResult = "error" =>
              /\ UNCHANGED <<startVars, defaultRoute>>
              /\ \A sv \in Services : desiredCount'[sv] = 1 => desiredCount[sv] = 1
              /\ rulePriority' # rulePriority => rulePriority' = MaintenancePriorities]_vars

\* the start handler returned 200
C15_Witness ==
    /\ startResult = "200"
    /\ startLog = StartOrder
    /\ defaultRoute = natGatewayId
    /\ natGatewayId # 0

StopOrder ==
    <<"SetRulePriorities", "UpdateService:webUI", "UpdateService:restApi", "StopDBInstance",
      "DeleteNatGateway">>

\* a gateway carries the configured name
NamedAsConfigured(g) ==
    g.Tags.present /\ NameTag(NAT_GATEWAY_NAME) \in Range(g.Tags.list)

\* C16: the stop handler reroutes to the maintenance page before it stops
\* anything; if that request fails nothing is stopped or deleted; a gateway
\* is deleted only if it was found 'available' with the configured name, and
\* without such a gateway the handler returns 200 with no delete.
C16_RerouteBeforeStop ==
    [][/\ IsPrefix(stopLog', StopOrder)
       /\ (\/ \E sv \in Services : desiredCount'[sv] = 0 /\ desiredCount[sv] = 1
           \/ dbStatus' = "stopping" /\ dbStatus # "stopping"
           \/ \E k \in DOMAIN natGateways :
                  natGateways'[k].State = "deleting" /\ natGateways[k].State # "deleting")
          => "SetRulePriorities" \in Range(stopLog)
       /\ (stopPc = "SetRulePriorities" /\ stopPc' = "thrown") =>
              stopLog' = <<>> /\ stopResult' = "error"
       /\ stopResult = "error" =>
              /\ UNCHANGED stopVars
              /\ \A sv \in Services : desiredCount'[sv] = 0 => desiredCount[sv] = 0
              /\ dbStatus' = "stopping" => dbStatus = "stopping"
              /\ \A k \in DOMAIN natGateways :
                     natGateways'[k].State = "deleting" => natGateways[k].State = "deleting"
       /\ \A k \in DOMAIN natGateways :
              (natGateways'[k].State = "deleting" /\ natGateways[k].State # "deleting") =>
                  /\ natGateway.NatGatewayId = natGateways[k].NatGatewayId
                  /\ natGateway.State = "available"
                  /\ NamedAsConfigured(natGateway)
       /\ (stopPc = "DescribeNatGateways" /\ stopPc' \notin {stopPc, "thrown"}) =>
              IF \E k \in DOMAIN natGateways :
                     natGateways[k].State = "available" /\ NamedAsConfigured(natGateways[k])
              THEN stopPc' = "DeleteNatGateway" /\ NamedAsConfigured(natGateway')
              ELSE stopResult' = "200" /\ natGateway' = NoGateway /\ stopLog' = stopLog
       /\ stopResult' = "200" =>
              ("DeleteNatGateway" \in Range(stopLog') <=> natGateway' # NoGateway)]_vars

\* only a gateway with another name exists: 200 without a delete
C16_Witness ==
    /\ stopResult = "200"
    /\ natGateway = NoGateway
    /\ natGateways # <<>>
    /\ natGateways[1].State = "available"
    /\ stopLog = SubSeq(StopOrder, 1, 4)

\* the gateway createNatGateway created
CreatedGateway == DescribeById(natGateways, natGatewayId)[1]

\* C18: the wait loops of the start handler leave only on 'available': any
\* other status sends the handler back to sleep; with the database or the
\* new gateway settled in 'failed' the handler has not returned and has taken
\* none of the steps after the wait.
C18_WaitsOnlyForAvailable ==
    [][/\ (startPc \in {"StartDBInstance", "DescribeDBInstances"} /\ startPc' \notin {startPc, "thrown"}
           /\ dbInstanceStatus' # "available") =>
              startPc' = "dbSleep" /\ startResult' = "none" /\ returnedOps' = returnedOps
       /\ (startPc \in {"CreateNatGateway", "DescribeNatGateways"} /\ startPc' \notin {startPc, "thrown"}
           /\ gatewayState' # "available") =>
              startPc' = "natSleep" /\ startResult' = "none" /\ returnedOps' = returnedOps
       /\ startPc = "dbSleep" => startPc' \in {"dbSleep", "DescribeDBInstances"}
       /\ startPc = "natSleep" => startPc' \in {"natSleep", "DescribeNatGateways"}
       /\ dbStatus' = "failed" =>
              /\ startPc' \in {"dbSleep", "DescribeDBInstances", "thrown"}
              /\ startLog' = <<"StartDBInstance">>
              /\ startResult' # "200"
       /\ (natGatewayId' # 0 /\ CreatedGateway'.State = "failed") =>
              /\ startPc' \in {"natSleep", "DescribeNatGateways", "thrown"}
              /\ "ReplaceRoute" \notin Range(startLog')
              /\ defaultRoute' = 0
              /\ startResult' # "200"]_vars

\* the new gateway was seen 'failed' and the handler sleeps again
C18_Witness ==
    /\ startPc = "natSleep"
    /\ gatewayState = "failed"
    /\ CreatedGateway.State = "failed"
    /\ startResult = "none"

====
